---- MODULE Spec2Model ----
(***************************************************************************)
(* Load lifecycle state machine of the freight management application.     *)
(*                                                                         *)
(* The repository carries two schemas of the Load aggregate:               *)
(*   "single"  tms/models.py      one pickup and one delivery facility     *)
(*   "multi"   tms/models_old.py  a load owns a sequence of LoadStop rows  *)
(* The variable schema fixes which of the two a behaviour runs.            *)
(*                                                                         *)
(* State is the persisted state of one load and of the rows that belong to *)
(* it.  Documents are kept as the set of document types for which at least *)
(* one row exists, because the code only ever asks                         *)
(* documents.filter(document_type=T).exists().                             *)
(*                                                                         *)
(* now is the reading of timezone.now().  The load is created at some      *)
(* reading in Times and the clock advances by one with every transition    *)
(* that writes, so that two milestones never carry the same reading.       *)
(*                                                                         *)
(* Specifications:                                                         *)
(*   Spec            the lifecycle of one load, one call at a time         *)
(*   SpecTruck       the same with the truck row in any operational status *)
(*   SpecRequests    concurrent change_status requests and their           *)
(*                   transactions                                          *)
(*   SpecSave        Load.save and the rate per mile                       *)
(*   SpecReschedule  reschedule requests and their approvals               *)
(*   SpecReschedulePair  two approved requests on one schedule field       *)
(*   SpecAccessorial create_accessorial and edit_accessorial               *)
(*   SpecPolicy      the action policy over the lifecycle                  *)
(*   SpecPolicyPair  two renderings of the action list of one load         *)
(*   SpecGate        reschedule and accessorial views on a cancelled load  *)
(*   SpecCreate      create_load_with_stops                                *)
(*   SpecStale       a reschedule approval between the read and the write  *)
(*                   of a change_status request                            *)
(*   SpecFleet       two loads that were given the same truck              *)
(*   SpecChangeStatus  a load driven through the view change_status by a   *)
(*                   user who keeps trying                                 *)
(***************************************************************************)
EXTENDS Integers, Sequences, FiniteSets, TLC

\* ---------------------------------------------------------------- bounds
MaxTime == 1
MaxStops == 2

\* ------------------------------------------------------------- constants
\* None for a foreign key, for a DateTimeField and for a numeric field
NULL == "null"
NoTime == -1
NoAmount == -1

BOOKED == "booked"
DISPATCHED == "dispatched"
IN_TRANSIT == "in_transit"
DELIVERED == "delivered"
COMPLETED == "completed"
CANCELLED == "cancelled"

Status == {BOOKED, DISPATCHED, IN_TRANSIT, DELIVERED, COMPLETED, CANCELLED}

StatusLabel(s) ==
    CASE s = BOOKED -> "Booked"
      [] s = DISPATCHED -> "Dispatched"
      [] s = IN_TRANSIT -> "In Transit"
      [] s = DELIVERED -> "Delivered"
      [] s = COMPLETED -> "Completed"
      [] s = CANCELLED -> "Cancelled"

DOCUMENT_TYPE_CHOICES ==
    [RC |-> "Rate Confirmation", BOL |-> "Bill of Lading", POD |-> "Proof of Delivery"]

DocTypes == DOMAIN DOCUMENT_TYPE_CHOICES

REQUIRED_FOR_COMPLETION == <<"POD", "BOL">>

TruckStatus == {"available", "assigned", "out_of_service"}

Schemas == {"single", "multi"}

\* users: one dispatcher who books the load, two tracking agents
Dispatcher == "dispatcher_user"
Agents == {"tracker1", "tracker2"}

\* the carrier, truck and driver rows a load can reference
TheCarrier == "carrier1"
TheTruck == "truck1"
TheDriver == "driver1"

Times == 0..MaxTime

\* ------------------------------------------------------------------ stops
PICKUP == "pickup"
DELIVERY == "delivery"
PENDING == "pending"
STOP_COMPLETED == "completed"
SKIPPED == "skipped"

LoadStop(stop_type, appointment_type, appt_start, appt_end) ==
    [stop_type |-> stop_type, appointment_type |-> appointment_type,
     appt_start |-> appt_start, appt_end |-> appt_end, status |-> PENDING]

\* the stop rows offered to LoadStop.objects.create for sequence number n:
\* a route starts with a pickup and continues with deliveries
StopInputs(n) ==
    IF n = 1
    THEN { LoadStop(PICKUP, "appt", 0, NoTime),
           LoadStop(PICKUP, "appt", NoTime, NoTime) }
    ELSE IF n = 2
    THEN { LoadStop(DELIVERY, "fcfs", NoTime, NoTime),
           LoadStop(DELIVERY, "appt", NoTime, 0) }
    ELSE { LoadStop(DELIVERY, "fcfs", NoTime, NoTime) }

\* ------------------------------------------------------------------ state
VARIABLES schema, now, load, documents, stops, handovers, accessorials,
          truck_status, last, requests, reschedule_requests

vars == <<schema, now, load, documents, stops, handovers, accessorials,
          truck_status, last, requests, reschedule_requests>>

Range(s) == {s[i] : i \in DOMAIN s}

NoCall == [op |-> "none", error |-> <<>>]

Call(op, error) == [op |-> op, error |-> error]

NewLoad ==
    [status |-> BOOKED, dispatcher |-> Dispatcher, tracking_agent |-> NULL,
     carrier |-> NULL, truck |-> NULL, driver |-> NULL,
     dispatched_at |-> NoTime, pickup_departure_at |-> NoTime,
     delivered_at |-> NoTime, completed_at |-> NoTime, cancelled_at |-> NoTime,
     delivery_datetime |-> NoTime,
     miles |-> NoAmount, rate |-> NoAmount, rpm |-> NoAmount]

Init ==
    /\ schema \in Schemas
    /\ now \in Times
    /\ load = NewLoad
    /\ documents = {}
    /\ stops = <<>>
    /\ handovers = <<>>
    /\ accessorials = <<>>
    /\ truck_status = "assigned"
    /\ last = NoCall
    /\ requests = <<>>
    /\ reschedule_requests = <<>>

\* ------------------------------------------------------- helper operators
\* truth value of a number in Python: None and zero are false
NumTruthy(v) == v # NoAmount /\ v # 0

\* rate / miles as the rpm column keeps it: two decimal places, in hundredths,
\* rounded half to even
RatePerMile(rate, miles) ==
    LET q == (rate * 100) \div miles
        r == (rate * 100) % miles
    IN  IF 2 * r > miles \/ (2 * r = miles /\ q % 2 = 1) THEN q + 1 ELSE q

\* Load.save: recompute rpm, then write the row
LoadSave(l) ==
    [l EXCEPT !.rpm = IF NumTruthy(l.miles) /\ NumTruthy(l.rate) /\ l.miles > 0
                      THEN RatePerMile(l.rate, l.miles)
                      ELSE NoAmount]

\* variant: the extra fields are dropped, only the status is written
_transition_StatusOnly(l, new_status, extra_fields) ==
    LoadSave([l EXCEPT !.status = new_status])

\* variant: a transition that is not given a tracking agent clears it
_transition_ClearsAgent(l, new_status, extra_fields) ==
    LoadSave([f \in DOMAIN l |->
                 IF f = "status" THEN new_status
                 ELSE IF f \in DOMAIN extra_fields THEN extra_fields[f]
                 ELSE IF f = "tracking_agent" THEN NULL
                 ELSE l[f]])

\* Load._transition: set the status and the extra fields, then save
_transition(l, new_status, extra_fields) ==
    LoadSave([f \in DOMAIN l |->
                 IF f = "status" THEN new_status
                 ELSE IF f \in DOMAIN extra_fields THEN extra_fields[f]
                 ELSE l[f]])

has_rate_confirmation == "RC" \in documents

\* a foreign key is truthy in Python when it is not None, and so is a datetime
Truthy(v) == v # NULL

TimeSet(t) == t # NoTime

\* variant: the appointment type is not looked at
ApptStopWithoutWindow_AnyType(stop) ==
    ~(TimeSet(stop.appt_start) \/ TimeSet(stop.appt_end))

ApptStopWithoutWindow(stop) ==
    stop.appointment_type = "appt" /\ ~(TimeSet(stop.appt_start) \/ TimeSet(stop.appt_end))

\* variant: the asset check only fires when all three are missing
HandoverErrors_AllAssetsMissing ==
    (IF load.status # BOOKED THEN <<"Load is not in BOOKED status.">> ELSE <<>>)
    \o (IF ~has_rate_confirmation
        THEN <<"Rate Confirmation document is missing.">> ELSE <<>>)
    \o (IF ~Truthy(load.carrier) /\ ~Truthy(load.truck) /\ ~Truthy(load.driver)
        THEN <<"Carrier, Truck, and Driver must be assigned.">> ELSE <<>>)
    \o (IF schema = "multi" /\ stops = <<>>
        THEN <<"At least 2 stops must be defined for the load.">> ELSE <<>>)
    \o (IF schema = "multi" /\ stops # <<>>
           /\ \E i \in DOMAIN stops : ApptStopWithoutWindow(stops[i])
        THEN <<"All APPT stops must have at least appt_start (or a window).">>
        ELSE <<>>)

\* variant: the status guard is missing
HandoverErrors_NoStatusGuard ==
    (IF ~has_rate_confirmation
        THEN <<"Rate Confirmation document is missing.">> ELSE <<>>)
    \o (IF ~Truthy(load.carrier) \/ ~Truthy(load.truck) \/ ~Truthy(load.driver)
        THEN <<"Carrier, Truck, and Driver must be assigned.">> ELSE <<>>)
    \o (IF schema = "multi" /\ stops = <<>>
        THEN <<"At least 2 stops must be defined for the load.">> ELSE <<>>)
    \o (IF schema = "multi" /\ stops # <<>>
           /\ \E i \in DOMAIN stops : ApptStopWithoutWindow(stops[i])
        THEN <<"All APPT stops must have at least appt_start (or a window).">>
        ELSE <<>>)

\* variant: fail fast, only the first unmet precondition is reported
HandoverErrors_FirstOnly ==
    IF load.status # BOOKED THEN <<"Load is not in BOOKED status.">>
    ELSE IF ~has_rate_confirmation THEN <<"Rate Confirmation document is missing.">>
    ELSE IF ~Truthy(load.carrier) \/ ~Truthy(load.truck) \/ ~Truthy(load.driver)
    THEN <<"Carrier, Truck, and Driver must be assigned.">>
    ELSE IF schema = "multi" /\ stops = <<>>
    THEN <<"At least 2 stops must be defined for the load.">>
    ELSE IF schema = "multi" /\ \E i \in DOMAIN stops : ApptStopWithoutWindow(stops[i])
    THEN <<"All APPT stops must have at least appt_start (or a window).">>
    ELSE <<>>

\* the guard clauses of handover_to_tracking, in source order, evaluated on
\* the Load object l the method is called on
HandoverErrorsOf(l) ==
    (IF l.status # BOOKED THEN <<"Load is not in BOOKED status.">> ELSE <<>>)
    \o (IF ~has_rate_confirmation
        THEN <<"Rate Confirmation document is missing.">> ELSE <<>>)
    \o (IF ~Truthy(l.carrier) \/ ~Truthy(l.truck) \/ ~Truthy(l.driver)
        THEN <<"Carrier, Truck, and Driver must be assigned.">> ELSE <<>>)
    \o (IF schema = "multi" /\ stops = <<>>
        THEN <<"At least 2 stops must be defined for the load.">> ELSE <<>>)
    \o (IF schema = "multi" /\ stops # <<>>
           /\ \E i \in DOMAIN stops : ApptStopWithoutWindow(stops[i])
        THEN <<"All APPT stops must have at least appt_start (or a window).">>
        ELSE <<>>)

HandoverErrors == HandoverErrorsOf(load)

\* Handover.save: insert the row, then write tracking_agent back to the load
HandoverSave(l, h) ==
    IF Truthy(h.to_agent) THEN [l EXCEPT !.tracking_agent = h.to_agent] ELSE l

\* ---------------------------------------------------------------- actions
handover_to_tracking(tracking_agent) ==
    LET errors == HandoverErrors
        h == [from_agent |-> load.dispatcher, to_agent |-> tracking_agent]
    IN  IF errors # <<>>
        THEN /\ last' = Call("handover_to_tracking",
                             <<"Cannot handover load: ">> \o errors)
             /\ UNCHANGED <<requests, reschedule_requests, schema, now, load, documents, stops, handovers,
                            accessorials, truck_status>>
        ELSE /\ load' = HandoverSave(
                            _transition(load, DISPATCHED,
                                        [tracking_agent |-> tracking_agent,
                                         dispatched_at |-> now]), h)
             /\ handovers' = Append(handovers, h)
             /\ last' = Call("handover_to_tracking", <<>>)
             /\ now' = now + 1
             /\ UNCHANGED <<requests, reschedule_requests, schema, documents, stops, accessorials, truck_status>>

start_transit ==
    IF load.status # DISPATCHED
    THEN /\ last' = Call("start_transit", <<"Load is not in DISPATCHED status.">>)
         /\ UNCHANGED <<requests, reschedule_requests, schema, now, load, documents, stops, handovers,
                        accessorials, truck_status>>
    ELSE /\ load' = _transition(load, IN_TRANSIT,
                                IF schema = "single"
                                THEN [pickup_departure_at |-> now]
                                ELSE <<>>)
         /\ last' = Call("start_transit", <<>>)
         /\ now' = now + 1
         /\ UNCHANGED <<requests, reschedule_requests, schema, documents, stops, handovers, accessorials,
                        truck_status>>

\* variant: a skipped delivery stop counts as incomplete
IncompleteDeliveryStops_SkippedBlocks ==
    /\ schema = "multi"
    /\ \E i \in DOMAIN stops :
          /\ stops[i].stop_type = DELIVERY
          /\ stops[i].status # STOP_COMPLETED

\* multi-stop check of mark_delivered: some delivery stop is neither completed nor skipped
IncompleteDeliveryStops ==
    /\ schema = "multi"
    /\ \E i \in DOMAIN stops :
          /\ stops[i].stop_type = DELIVERY
          /\ stops[i].status \notin {STOP_COMPLETED, SKIPPED}

\* variant: the type code is reported instead of its label
RECURSIVE MissingTypes_Codes(_)
MissingTypes_Codes(required) ==
    IF required = <<>> THEN <<>>
    ELSE (IF Head(required) \notin documents THEN <<Head(required)>> ELSE <<>>)
         \o MissingTypes_Codes(Tail(required))

\* labels of the required document types that have no row, in list order
RECURSIVE MissingTypes(_)
MissingTypes(required) ==
    IF required = <<>> THEN <<>>
    ELSE (IF Head(required) \notin documents
          THEN <<DOCUMENT_TYPE_CHOICES[Head(required)]>> ELSE <<>>)
         \o MissingTypes(Tail(required))

mark_delivered ==
    LET missing_types == MissingTypes(REQUIRED_FOR_COMPLETION)
        fail(msg) ==
            /\ last' = Call("mark_delivered", msg)
            /\ UNCHANGED <<requests, reschedule_requests, schema, now, load, documents, stops, handovers,
                           accessorials, truck_status>>
    IN  IF load.status # IN_TRANSIT
        THEN fail(<<"Load is not in IN_TRANSIT status.">>)
        ELSE IF IncompleteDeliveryStops
        THEN fail(<<"Cannot mark as delivered. All delivery stops must be completed or skipped.">>)
        ELSE IF missing_types # <<>>
        THEN fail(<<"Cannot mark as delivered. These documents are missing: ">>
                  \o missing_types)
        ELSE /\ load' = _transition(load, DELIVERED, [delivered_at |-> now])
             /\ last' = Call("mark_delivered", <<>>)
             /\ now' = now + 1
             /\ UNCHANGED <<requests, reschedule_requests, schema, documents, stops, handovers, accessorials,
                            truck_status>>

\* variant: completing a load stamps delivered_at again
complete_load_RestampsDelivered ==
    IF load.status # DELIVERED
    THEN /\ last' = Call("complete_load", <<"Load is not in DELIVERED status.">>)
         /\ UNCHANGED <<requests, reschedule_requests, schema, now, load, documents,
                        stops, handovers, accessorials, truck_status>>
    ELSE /\ load' = _transition(load, COMPLETED,
                                [completed_at |-> now, delivered_at |-> now])
         /\ last' = Call("complete_load", <<>>)
         /\ now' = now + 1
         /\ UNCHANGED <<requests, reschedule_requests, schema, documents, stops,
                        handovers, accessorials, truck_status>>

\* variant: a call in the wrong status silently does nothing
complete_load_SilentNoOp ==
    IF load.status # DELIVERED
    THEN /\ last' = Call("complete_load", <<>>)
         /\ UNCHANGED <<requests, reschedule_requests, schema, now, load, documents, stops, handovers,
                        accessorials, truck_status>>
    ELSE /\ load' = _transition(load, COMPLETED, [completed_at |-> now])
         /\ last' = Call("complete_load", <<>>)
         /\ now' = now + 1
         /\ UNCHANGED <<requests, reschedule_requests, schema, documents, stops, handovers, accessorials,
                        truck_status>>

complete_load ==
    IF load.status # DELIVERED
    THEN /\ last' = Call("complete_load", <<"Load is not in DELIVERED status.">>)
         /\ UNCHANGED <<requests, reschedule_requests, schema, now, load, documents, stops, handovers,
                        accessorials, truck_status>>
    ELSE /\ load' = _transition(load, COMPLETED, [completed_at |-> now])
         /\ last' = Call("complete_load", <<>>)
         /\ now' = now + 1
         /\ UNCHANGED <<requests, reschedule_requests, schema, documents, stops, handovers, accessorials,
                        truck_status>>

\* variant: only the statuses named in the docstring of cancel are refused
CancelRefused_DocstringOnly == {CANCELLED, COMPLETED}

\* the statuses in which cancel is refused
CancelRefused == {CANCELLED, COMPLETED, DELIVERED}

\* variant: the charge is created already approved
TonuCharge_PreApproved(l) ==
    [charge_type |-> "tonu", amount |-> 0,
     description |-> <<"TONU charge - Load cancelled at ", StatusLabel(l.status)>>,
     created_by |-> l.dispatcher,
     manager_approved |-> TRUE, broker_approved |-> TRUE]

\* the row of Accessorial.objects.create in cancel; l is the load as it is
\* when the row is built, after _transition
TonuCharge(l) ==
    [charge_type |-> "tonu", amount |-> 0,
     description |-> <<"TONU charge - Load cancelled at ", StatusLabel(l.status)>>,
     created_by |-> l.dispatcher,
     manager_approved |-> FALSE, broker_approved |-> FALSE]

\* variant: the truck is freed whether or not the load references it
FreeTruck_Always(l) == "available"

\* the last lines of cancel: the status of the truck after the call
FreeTruck(l) == IF Truthy(l.truck) THEN "available" ELSE truck_status

cancel ==
    IF load.status \in CancelRefused
    THEN /\ last' = Call("cancel",
                         <<"Load is already CANCELLED, DELIVERED or COMPLETED.">>)
         /\ UNCHANGED <<requests, reschedule_requests, schema, now, load, documents,
                        stops, handovers, accessorials, truck_status>>
    ELSE LET l == _transition(load, CANCELLED, [cancelled_at |-> now])
         IN  /\ load' = l
             /\ accessorials' = Append(accessorials, TonuCharge(l))
             /\ truck_status' = FreeTruck(l)
             /\ last' = Call("cancel", <<>>)
             /\ now' = now + 1
             /\ UNCHANGED <<requests, reschedule_requests, schema, documents, stops,
                            handovers>>

\* ------------------------------------------ operations around the lifecycle
upload_document(document_type) ==
    /\ documents' = documents \cup {document_type}
    /\ last' = NoCall
    /\ UNCHANGED <<requests, reschedule_requests, schema, now, load, stops, handovers, accessorials, truck_status>>

\* statuses in which LoadForm disables carrier, driver and truck
LockedStatuses == {IN_TRANSIT, DELIVERED, COMPLETED}

\* POST of load_detail: LoadForm(request.POST, instance=load), is_valid, save
load_detail(carrier, truck, driver) ==
    LET locked == load.status \in LockedStatuses
        carrier_id == IF Truthy(load.carrier) THEN load.carrier ELSE carrier
        valid == locked \/ Truthy(carrier_id) \/ (~Truthy(truck) /\ ~Truthy(driver))
    IN  /\ load' = IF valid /\ ~locked
                   THEN [load EXCEPT !.carrier = carrier, !.truck = truck,
                                     !.driver = driver]
                   ELSE load
        /\ last' = NoCall
        /\ UNCHANGED <<requests, reschedule_requests, schema, now, documents, stops, handovers, accessorials,
                       truck_status>>

\* LoadStop.objects.create(load=load, sequence=Len(stops) + 1, ...)
create_stop ==
    /\ schema = "multi"
    /\ Len(stops) < MaxStops
    /\ \E stop \in StopInputs(Len(stops) + 1) : stops' = Append(stops, stop)
    /\ last' = NoCall
    /\ UNCHANGED <<requests, reschedule_requests, schema, now, load, documents, handovers, accessorials, truck_status>>

mark_completed(i) ==
    /\ i \in DOMAIN stops
    /\ stops' = [stops EXCEPT ![i].status = STOP_COMPLETED]
    /\ last' = NoCall
    /\ UNCHANGED <<requests, reschedule_requests, schema, now, load, documents, handovers, accessorials, truck_status>>

mark_skipped(i) ==
    /\ i \in DOMAIN stops
    /\ stops' = [stops EXCEPT ![i].status = SKIPPED]
    /\ last' = NoCall
    /\ UNCHANGED <<requests, reschedule_requests, schema, now, load, documents, handovers, accessorials, truck_status>>

Next ==
    \/ \E a \in Agents : handover_to_tracking(a)
    \/ start_transit
    \/ mark_delivered
    \/ complete_load
    \/ cancel
    \/ \E t \in DocTypes : upload_document(t)
    \/ \E c \in {NULL, TheCarrier}, t \in {NULL, TheTruck}, d \in {NULL, TheDriver} :
          load_detail(c, t, d)
    \/ create_stop
    \/ \E i \in 1..MaxStops : mark_completed(i)
    \/ \E i \in 1..MaxStops : mark_skipped(i)

Spec == Init /\ [][Next]_vars

\* ------------------------------------------------ the truck of the load
\* the single-facility schema with the truck row in any operational status
InitTruck ==
    /\ schema = "single"
    /\ now \in Times
    /\ load = NewLoad
    /\ documents = {}
    /\ stops = <<>>
    /\ handovers = <<>>
    /\ accessorials = <<>>
    /\ truck_status \in TruckStatus
    /\ last = NoCall
    /\ requests = <<>>
    /\ reschedule_requests = <<>>

NextTruck ==
    \/ \E a \in Agents : handover_to_tracking(a)
    \/ start_transit
    \/ mark_delivered
    \/ complete_load
    \/ cancel
    \/ \E t \in DocTypes : upload_document(t)
    \/ \E c \in {NULL, TheCarrier}, t \in {NULL, TheTruck}, d \in {NULL, TheDriver} :
          load_detail(c, t, d)

SpecTruck == InitTruck /\ [][NextTruck]_vars

\* --------------------------------------------- requests to change_status
\* The view change_status fetches the Load row into an object of its own and
\* calls the transition on that object.  Here load, handovers, accessorials
\* and truck_status are what is committed in the database, and requests[r]
\* is request r: its action, its position, its Load object and its outcome.
\* A request whose transition has written the load row holds the lock of
\* that row until its transaction ends.
MaxRequests == 2

RAISED == <<"database error">>

\* variant: every write is committed on its own (no transaction.atomic)
atomic_Autocommit == FALSE

\* @transaction.atomic on the transition methods, ATOMIC_REQUESTS on the view
atomic == TRUE

InitRequests ==
    /\ schema = "single"
    /\ now \in Times
    /\ load = [NewLoad EXCEPT !.carrier = TheCarrier, !.truck = TheTruck,
                               !.driver = TheDriver]
    /\ documents = {"RC"}
    /\ stops = <<>>
    /\ handovers = <<>>
    /\ accessorials = <<>>
    /\ truck_status = "assigned"
    /\ last = NoCall
    /\ requests = <<>>
    /\ reschedule_requests = <<>>

\* load = get_object_or_404(Load, load_id=load_id)
get_object_or_404(action, tracking_agent) ==
    /\ Len(requests) < MaxRequests
    /\ requests' = Append(requests,
                          [action |-> action, tracking_agent |-> tracking_agent,
                           pc |-> "fetched", load |-> load, error |-> <<>>])
    /\ UNCHANGED <<schema, now, load, documents, stops, handovers, accessorials,
                   truck_status, last, reschedule_requests>>

RowLocked == \E r \in DOMAIN requests : requests[r].pc = "written"

\* the guard of the transition on the request's Load object
GuardErrors(req) ==
    IF req.action = "handover"
    THEN (IF HandoverErrorsOf(req.load) # <<>>
          THEN <<"Cannot handover load: ">> \o HandoverErrorsOf(req.load)
          ELSE <<>>)
    ELSE (IF req.load.status \in CancelRefused
          THEN <<"Load is already CANCELLED, DELIVERED or COMPLETED.">>
          ELSE <<>>)

\* the call of the transition up to and including self._transition(...):
\* a failed guard ends the request with the message, otherwise the load row
\* is updated from the request's object
call_transition(r) ==
    /\ r \in DOMAIN requests
    /\ requests[r].pc = "fetched"
    /\ LET req == requests[r]
           errors == GuardErrors(req)
           l == IF req.action = "handover"
                THEN _transition(req.load, DISPATCHED,
                                 [tracking_agent |-> req.tracking_agent,
                                  dispatched_at |-> now])
                ELSE _transition(req.load, CANCELLED, [cancelled_at |-> now])
       IN  IF errors # <<>>
           THEN /\ requests' = [requests EXCEPT ![r].pc = "done",
                                                ![r].error = errors]
                /\ UNCHANGED <<now, load>>
           ELSE /\ ~RowLocked
                /\ requests' = [requests EXCEPT ![r].pc = "written", ![r].load = l]
                /\ load' = IF atomic THEN load ELSE l
                /\ now' = now + 1
    /\ UNCHANGED <<schema, documents, stops, handovers, accessorials,
                   truck_status, last, reschedule_requests>>

\* the rest of the transition and the end of the transaction: the side-effect
\* rows are written and everything the request wrote is committed
side_effects(r) ==
    /\ r \in DOMAIN requests
    /\ requests[r].pc = "written"
    /\ LET req == requests[r]
           h == [from_agent |-> req.load.dispatcher, to_agent |-> req.tracking_agent]
       IN  IF req.action = "handover"
           THEN /\ load' = HandoverSave(req.load, h)
                /\ handovers' = Append(handovers, h)
                /\ UNCHANGED <<accessorials, truck_status>>
           ELSE /\ load' = req.load
                /\ accessorials' = Append(accessorials, TonuCharge(req.load))
                /\ truck_status' = FreeTruck(req.load)
                /\ UNCHANGED handovers
    /\ requests' = [requests EXCEPT ![r].pc = "done"]
    /\ UNCHANGED <<schema, now, documents, stops, last, reschedule_requests>>

\* a side-effect write raises: at "create" the insert of the Handover or
\* Accessorial row fails, at "save" the write that follows it (the load's
\* tracking_agent, the truck's status).  The exception leaves the atomic
\* block and the transaction is rolled back.
side_effect_fails(r, at) ==
    /\ r \in DOMAIN requests
    /\ requests[r].pc = "written"
    /\ LET req == requests[r]
           h == [from_agent |-> req.load.dispatcher, to_agent |-> req.tracking_agent]
       IN  IF atomic \/ at = "create"
           THEN UNCHANGED <<load, handovers, accessorials, truck_status>>
           ELSE IF req.action = "handover"
           THEN /\ handovers' = Append(handovers, h)
                /\ UNCHANGED <<load, accessorials, truck_status>>
           ELSE /\ accessorials' = Append(accessorials, TonuCharge(req.load))
                /\ UNCHANGED <<load, handovers, truck_status>>
    /\ requests' = [requests EXCEPT ![r].pc = "done", ![r].error = RAISED]
    /\ UNCHANGED <<schema, now, documents, stops, last, reschedule_requests>>

NextRequests ==
    \/ \E action \in {"handover", "cancel"}, a \in Agents :
          get_object_or_404(action, a)
    \/ \E r \in 1..MaxRequests : call_transition(r)
    \/ \E r \in 1..MaxRequests : side_effects(r)
    \/ \E r \in 1..MaxRequests, at \in {"create", "save"} : side_effect_fails(r, at)

SpecRequests == InitRequests /\ [][NextRequests]_vars

\* ------------------------------------------------------ rate per mile
\* miles, and rate in whole dollars, as a caller or LoadForm supplies them
MaxAmount == 2

Amounts == {NoAmount} \cup 0..MaxAmount

\* values of rpm a caller may assign before save, in hundredths
RpmInputs == {NoAmount, 999}

\* Load.objects.create(miles=..., rate=..., rpm=...)
InitSave ==
    /\ schema = "single"
    /\ now \in Times
    /\ \E miles \in Amounts, rate \in Amounts, rpm \in RpmInputs :
          load = LoadSave([NewLoad EXCEPT !.miles = miles, !.rate = rate,
                                          !.rpm = rpm])
    /\ documents = {}
    /\ stops = <<>>
    /\ handovers = <<>>
    /\ accessorials = <<>>
    /\ truck_status = "assigned"
    /\ last = NoCall
    /\ requests = <<>>
    /\ reschedule_requests = <<>>

\* the caller assigns miles, rate and rpm on the Load object and saves it
load_save(miles, rate, rpm) ==
    /\ load' = LoadSave([load EXCEPT !.miles = miles, !.rate = rate, !.rpm = rpm])
    /\ last' = Call("save", <<>>)
    /\ UNCHANGED <<requests, reschedule_requests, schema, now, documents, stops,
                   handovers, accessorials, truck_status>>

NextSave ==
    \/ \E miles \in Amounts, rate \in Amounts, rpm \in RpmInputs :
          load_save(miles, rate, rpm)
    \/ \E a \in Agents : handover_to_tracking(a)
    \/ start_transit
    \/ mark_delivered
    \/ complete_load
    \/ cancel

SpecSave == InitSave /\ [][NextSave]_vars

\* ------------------------------------------------- reschedule requests
\* reschedule_requests holds the RescheduleRequest rows of the load.  The
\* schedule field a request applies to is load.delivery_datetime in the
\* single-facility schema and appt_start of the request's stop in the
\* multi-stop schema.
MaxReschedules == 1

\* variant: the consignee's approval is not required
is_fully_approved_WithoutConsignee(rr) ==
    rr.broker_approved /\ rr.manager_approved

is_fully_approved(rr) ==
    rr.consignee_approved /\ rr.broker_approved /\ rr.manager_approved

\* variant: the schedule is moved by the difference of the two appointments
AppliedAppointment_Shifted(rr, current) ==
    current + (rr.new_appointment - rr.original_appointment)

\* the value RescheduleRequest.save assigns to the schedule field
AppliedAppointment(rr, current) == rr.new_appointment

\* variant: a request that is no longer fully approved puts the original
\* appointment back
WriteSchedule_RevertsOnUnapprove(rr) ==
    IF schema = "single"
    THEN /\ load' = [load EXCEPT !.delivery_datetime =
                                   IF is_fully_approved(rr) THEN rr.new_appointment
                                   ELSE rr.original_appointment]
         /\ UNCHANGED stops
    ELSE /\ stops' = [stops EXCEPT ![rr.stop].appt_start =
                                   IF is_fully_approved(rr) THEN rr.new_appointment
                                   ELSE rr.original_appointment]
         /\ UNCHANGED load

\* the first half of RescheduleRequest.save: the write of the schedule field
\* with save(update_fields=[...]), which writes that column only
WriteSchedule(rr) ==
    IF ~is_fully_approved(rr)
    THEN UNCHANGED <<load, stops>>
    ELSE IF schema = "single"
    THEN /\ load' = [load EXCEPT !.delivery_datetime =
                                   AppliedAppointment(rr, load.delivery_datetime)]
         /\ UNCHANGED stops
    ELSE /\ stops' = [stops EXCEPT ![rr.stop].appt_start =
                                   AppliedAppointment(rr, stops[rr.stop].appt_start)]
         /\ UNCHANGED load

\* the call just made: which row it saved and whether that row was fully
\* approved before the call
RescheduleCall(op, error, i, was_approved) ==
    [op |-> op, error |-> error, request |-> i, was_approved |-> was_approved]

\* a load with a delivery appointment; in the multi-stop schema with a pickup
\* and a delivery stop
InitReschedule ==
    /\ schema \in Schemas
    /\ now = 0
    /\ \E t \in Times : load = [NewLoad EXCEPT !.delivery_datetime = t]
    /\ documents = {}
    /\ IF schema = "single" THEN stops = <<>>
       ELSE \E s1 \in StopInputs(1), s2 \in StopInputs(2) :
               /\ ~ApptStopWithoutWindow(s1)
               /\ stops = <<s1, s2>>
    /\ handovers = <<>>
    /\ accessorials = <<>>
    /\ truck_status = "assigned"
    /\ last = NoCall
    /\ requests = <<>>
    /\ reschedule_requests = <<>>

\* a new RescheduleRequest row is built and saved; original_appointment is
\* the schedule field as it stands, or the time of the request if it is empty
create_reschedule_request(stop, new_appointment, consignee_approved, broker_approved, manager_approved) ==
    LET current == IF schema = "single" THEN load.delivery_datetime
                   ELSE stops[stop].appt_start
        rr == [stop |-> stop,
               original_appointment |-> IF TimeSet(current) THEN current ELSE now,
               new_appointment |-> new_appointment,
               consignee_approved |-> consignee_approved,
               broker_approved |-> broker_approved,
               manager_approved |-> manager_approved]
    IN  /\ Len(reschedule_requests) < MaxReschedules
        /\ IF schema = "single" THEN stop = 0 ELSE stop \in DOMAIN stops
        /\ WriteSchedule(rr)
        /\ reschedule_requests' = Append(reschedule_requests, rr)
        /\ last' = RescheduleCall("create_reschedule_request", <<>>,
                                  Len(reschedule_requests) + 1, FALSE)
        /\ UNCHANGED <<requests, schema, now, documents, handovers, accessorials,
                       truck_status>>

\* the three flags are set from the POST and the row is saved
update_reschedule_approvals(i, consignee_approved, broker_approved, manager_approved) ==
    /\ i \in DOMAIN reschedule_requests
    /\ LET rr == [reschedule_requests[i] EXCEPT
                      !.consignee_approved = consignee_approved,
                      !.broker_approved = broker_approved,
                      !.manager_approved = manager_approved]
       IN  /\ WriteSchedule(rr)
           /\ reschedule_requests' = [reschedule_requests EXCEPT ![i] = rr]
    /\ last' = RescheduleCall("update_reschedule_approvals", <<>>, i,
                              is_fully_approved(reschedule_requests[i]))
    /\ UNCHANGED <<requests, schema, now, documents, handovers, accessorials,
                   truck_status>>

\* the same call when the write of the request's own row raises after the
\* schedule was written: save is atomic, both writes are rolled back
update_reschedule_approvals_fails(i, consignee_approved, broker_approved, manager_approved) ==
    /\ i \in DOMAIN reschedule_requests
    /\ LET rr == [reschedule_requests[i] EXCEPT
                      !.consignee_approved = consignee_approved,
                      !.broker_approved = broker_approved,
                      !.manager_approved = manager_approved]
       IN  IF atomic THEN UNCHANGED <<load, stops>> ELSE WriteSchedule(rr)
    /\ last' = RescheduleCall("update_reschedule_approvals", RAISED, i,
                              is_fully_approved(reschedule_requests[i]))
    /\ UNCHANGED <<requests, reschedule_requests, schema, now, documents, handovers,
                   accessorials, truck_status>>

NextReschedule ==
    \/ \E stop \in 0..MaxStops, new \in Times,
          c \in BOOLEAN, b \in BOOLEAN, m \in BOOLEAN :
          create_reschedule_request(stop, new, c, b, m)
    \/ \E i \in 1..MaxReschedules, c \in BOOLEAN, b \in BOOLEAN, m \in BOOLEAN :
          update_reschedule_approvals(i, c, b, m)
    \/ \E i \in 1..MaxReschedules, c \in BOOLEAN, b \in BOOLEAN, m \in BOOLEAN :
          update_reschedule_approvals_fails(i, c, b, m)

SpecReschedule == InitReschedule /\ [][NextReschedule]_vars

\* two requests on the same schedule field: request 1 was created fully
\* approved and applied, then request 2 was created fully approved for another
\* time and applied, so the field holds the time of request 2
InitReschedulePair ==
    /\ schema \in Schemas
    /\ now = 0
    /\ documents = {}
    /\ handovers = <<>>
    /\ accessorials = <<>>
    /\ truck_status = "assigned"
    /\ requests = <<>>
    /\ \E t0 \in Times, t1 \in Times, t2 \in Times, stop \in 0..MaxStops :
          /\ t1 # t2
          /\ IF schema = "single"
             THEN /\ stop = 0
                  /\ load = [NewLoad EXCEPT !.delivery_datetime = t2]
                  /\ stops = <<>>
             ELSE /\ stop \in 1..2
                  /\ load = NewLoad
                  /\ stops = [<<LoadStop(PICKUP, "appt", t0, NoTime),
                                 LoadStop(DELIVERY, "appt", t0, NoTime)>>
                                 EXCEPT ![stop].appt_start = t2]
          /\ reschedule_requests =
                <<[stop |-> stop, original_appointment |-> t0, new_appointment |-> t1,
                   consignee_approved |-> TRUE, broker_approved |-> TRUE,
                   manager_approved |-> TRUE],
                  [stop |-> stop, original_appointment |-> t1, new_appointment |-> t2,
                   consignee_approved |-> TRUE, broker_approved |-> TRUE,
                   manager_approved |-> TRUE]>>
          /\ last = RescheduleCall("create_reschedule_request", <<>>, 2, FALSE)

NextReschedulePair ==
    \/ \E i \in DOMAIN reschedule_requests, c \in BOOLEAN, b \in BOOLEAN, m \in BOOLEAN :
          update_reschedule_approvals(i, c, b, m)
    \/ \E i \in DOMAIN reschedule_requests, c \in BOOLEAN, b \in BOOLEAN, m \in BOOLEAN :
          update_reschedule_approvals_fails(i, c, b, m)

SpecReschedulePair == InitReschedulePair /\ [][NextReschedulePair]_vars

\* ---------------------------------------------------------------------------
\* Accessorial charges: create_accessorial and edit_accessorial.  The views
\* bind the posted fields to a model form; is_valid runs the model's
\* full_clean, hence Accessorial.clean, and only a valid form is saved.  A row
\* keeps the fields the validation and the approval read; description, load
\* and created_by are left out.
\* ---------------------------------------------------------------------------
MaxAccessorials == 1

ChargeType == {"detention", "layover", "tonu", "lumper", "other"}

Roles == {"dispatcher", "tracking_agent", "manager"}

\* a posted amount: blank, below zero, zero, above zero
AccessorialAmounts == {NoAmount, NoAmount - 1, 0, 1}

NoDetention == [start |-> NoTime, end |-> NoTime, hours |-> NoAmount]

NoLayover == [start |-> NoTime, end |-> NoTime]

\* posted detention fields: blank, a window with billed hours, a reversed
\* window with zero billed hours
DetentionInputs ==
    {NoDetention,
     [start |-> 0, end |-> MaxTime, hours |-> 1],
     [start |-> MaxTime, end |-> 0, hours |-> 0]}

\* posted layover fields: blank, a window, a reversed window
LayoverInputs ==
    {NoLayover,
     [start |-> 0, end |-> MaxTime],
     [start |-> MaxTime, end |-> 0]}

Accessorial(charge_type, amount, manager_approved, broker_approved, d, l) ==
    [charge_type |-> charge_type, amount |-> amount,
     manager_approved |-> manager_approved, broker_approved |-> broker_approved,
     detention_start |-> d.start, detention_end |-> d.end,
     detention_billed_hours |-> d.hours,
     layover_start_date |-> l.start, layover_end_date |-> l.end]

\* the posted forms: the fields of a charge type are filled in only on a
\* record of that type, and approvals are ticked only on a record that has
\* an amount above zero
AccessorialInputs ==
    {Accessorial(t, a, m, b, d, l) :
        t \in ChargeType, a \in AccessorialAmounts, m \in BOOLEAN, b \in BOOLEAN,
        d \in DetentionInputs, l \in LayoverInputs}

AccessorialForms ==
    {a \in AccessorialInputs :
        /\ a.charge_type # "detention"
              => <<a.detention_start, a.detention_end, a.detention_billed_hours>>
                   = <<NoTime, NoTime, NoAmount>>
        /\ a.charge_type # "layover"
              => <<a.layover_start_date, a.layover_end_date>> = <<NoTime, NoTime>>
        /\ (a.manager_approved \/ a.broker_approved) => a.amount = 1}

\* variant: no check of the amount
Accessorial_clean_AcceptsNegative(a) == <<>>

\* Accessorial.clean
Accessorial_clean(a) ==
    IF a.amount # NoAmount /\ a.amount < 0
    THEN <<"Amount cannot be negative.">>
    ELSE <<>>

\* variant: the approval of the manager alone
is_approved_ManagerOnly(a) == a.manager_approved

\* Accessorial.is_approved
is_approved(a) == a.manager_approved /\ a.broker_approved

\* Accessorial.get_approval_status_display
get_approval_status_display(a) == IF is_approved(a) THEN "APPROVED" ELSE "PENDING"

\* the observation of an accessorial call: the row it is about (0 when none
\* was written), the posted amount and what the page shows for the row
AccessorialCall(op, error, index, amount, status) ==
    [op |-> op, error |-> error, index |-> index, amount |-> amount,
     approval_status |-> status]

InitAccessorial ==
    /\ schema = "single"
    /\ now = 0
    /\ load = NewLoad
    /\ documents = {}
    /\ stops = <<>>
    /\ handovers = <<>>
    /\ accessorials = <<>>
    /\ truck_status = "assigned"
    /\ requests = <<>>
    /\ reschedule_requests = <<>>
    /\ last = NoCall

create_accessorial(role, form) ==
    /\ Len(accessorials) < MaxAccessorials
    /\ IF role \notin {"dispatcher", "tracking_agent"}
       THEN /\ last' = AccessorialCall("create_accessorial",
                                        <<"Not authorized to add charges.">>,
                                        0, form.amount, NULL)
            /\ UNCHANGED accessorials
       ELSE IF Accessorial_clean(form) # <<>>
       THEN /\ last' = AccessorialCall("create_accessorial",
                                        <<"Please correct the errors below.">>,
                                        0, form.amount, NULL)
            /\ UNCHANGED accessorials
       ELSE /\ accessorials' = Append(accessorials, form)
            /\ last' = AccessorialCall("create_accessorial", <<>>,
                                        Len(accessorials) + 1, form.amount,
                                        get_approval_status_display(form))
    /\ UNCHANGED <<requests, reschedule_requests, schema, now, load, documents, stops,
                   handovers, truck_status>>

edit_accessorial(pk, role, form) ==
    /\ pk \in DOMAIN accessorials
    /\ IF role \notin {"dispatcher", "tracking_agent"}
       THEN /\ last' = AccessorialCall("edit_accessorial",
                                        <<"Not authorized to edit charges.">>,
                                        0, form.amount, NULL)
            /\ UNCHANGED accessorials
       ELSE IF Accessorial_clean(form) # <<>>
       THEN /\ last' = AccessorialCall("edit_accessorial",
                                        <<"Please correct the errors below.">>,
                                        0, form.amount, NULL)
            /\ UNCHANGED accessorials
       ELSE /\ accessorials' = [accessorials EXCEPT ![pk] = form]
            /\ last' = AccessorialCall("edit_accessorial", <<>>, pk, form.amount,
                                        get_approval_status_display(form))
    /\ UNCHANGED <<requests, reschedule_requests, schema, now, load, documents, stops,
                   handovers, truck_status>>

NextAccessorial ==
    \/ \E role \in Roles, form \in AccessorialForms : create_accessorial(role, form)
    \/ \E pk \in 1..MaxAccessorials, role \in Roles, form \in AccessorialForms :
          edit_accessorial(pk, role, form)

SpecAccessorial == InitAccessorial /\ [][NextAccessorial]_vars

\* ---------------------------------------------------------------------------
\* The action policy: actions_for(user, load) of policies/load_actions.py and
\* Load.get_available_actions(user), which load_detail calls to render the
\* page.  Both read the role of the user, the status of the load, its driver
\* and, through can_handover, its documents, carrier, truck and stops.
\* ---------------------------------------------------------------------------
\* variant: the handover button does not wait for the rate confirmation
can_handover_WithoutDocuments ==
    /\ load.status = BOOKED
    /\ load.carrier # NULL
    /\ load.truck # NULL
    /\ load.driver # NULL
    /\ schema = "multi"
          => /\ stops # <<>>
             /\ \A i \in DOMAIN stops : ~ApptStopWithoutWindow(stops[i])

\* Load.can_handover: models.py stops after the assets, models_old.py goes on
\* to the stops
can_handover ==
    /\ load.status = BOOKED
    /\ has_rate_confirmation
    /\ load.carrier # NULL
    /\ load.truck # NULL
    /\ load.driver # NULL
    /\ schema = "multi"
          => /\ stops # <<>>
             /\ \A i \in DOMAIN stops : ~ApptStopWithoutWindow(stops[i])

\* variant: a delivered load can still be cancelled and rescheduled
dispatcher_actions_OpenWhenDelivered ==
    (IF load.status = BOOKED /\ can_handover THEN <<"handover_to_tracking">> ELSE <<>>)
    \o (IF load.status \notin {COMPLETED, CANCELLED}
        THEN <<"cancel_load", "create_reschedule_request">> ELSE <<>>)
    \o (IF load.status \notin {COMPLETED, CANCELLED} THEN <<"add_accessorial">> ELSE <<>>)

\* the branch of is_dispatcher(user)
dispatcher_actions ==
    (IF load.status = BOOKED /\ can_handover THEN <<"handover_to_tracking">> ELSE <<>>)
    \o (IF load.status \notin {COMPLETED, DELIVERED, CANCELLED}
        THEN <<"cancel_load", "create_reschedule_request">> ELSE <<>>)
    \o (IF load.status \notin {COMPLETED, CANCELLED} THEN <<"add_accessorial">> ELSE <<>>)

\* the branch of is_tracking_agent(user)
tracking_agent_actions ==
    (IF load.status = DISPATCHED THEN <<"start_transit">> ELSE <<>>)
    \o (IF load.status = IN_TRANSIT THEN <<"mark_delivered">> ELSE <<>>)
    \o (IF load.status = DELIVERED THEN <<"complete_load">> ELSE <<>>)
    \o (IF load.status \in {DISPATCHED, IN_TRANSIT} THEN <<"add_tracking_update">> ELSE <<>>)
    \o (IF load.status \notin {COMPLETED, CANCELLED, DELIVERED}
        THEN <<"create_reschedule_request">> ELSE <<>>)
    \o (IF load.status \notin {COMPLETED, CANCELLED} THEN <<"add_accessorial">> ELSE <<>>)

\* variant: the upload is offered only while the load is open
common_actions_NoUploadWhenClosed ==
    (IF Truthy(load.driver) THEN <<"view_driver_hos">> ELSE <<>>)
    \o (IF load.status \notin {COMPLETED, CANCELLED} THEN <<"upload_document">> ELSE <<>>)

\* the common actions at the end of actions_for
common_actions ==
    (IF Truthy(load.driver) THEN <<"view_driver_hos">> ELSE <<>>)
    \o <<"upload_document">>

actions_for(role) ==
    (IF role = "dispatcher" THEN dispatcher_actions ELSE <<>>)
    \o (IF role = "tracking_agent" THEN tracking_agent_actions ELSE <<>>)
    \o common_actions

\* variant: the method lists the common actions first
Load_get_available_actions_CommonFirst(role) ==
    (IF Truthy(load.driver) THEN <<"view_driver_hos">> ELSE <<>>)
    \o <<"upload_document">>
    \o (IF role = "dispatcher" THEN dispatcher_actions ELSE <<>>)
    \o (IF role = "tracking_agent" THEN tracking_agent_actions ELSE <<>>)

\* Load.get_available_actions(user), the method of the model
Load_get_available_actions(role) ==
    (IF role = "dispatcher"
     THEN (IF load.status = BOOKED /\ can_handover
           THEN <<"handover_to_tracking">> ELSE <<>>)
          \o (IF load.status \notin {COMPLETED, DELIVERED, CANCELLED}
              THEN <<"cancel_load">> ELSE <<>>)
          \o (IF load.status \notin {COMPLETED, CANCELLED, DELIVERED}
              THEN <<"create_reschedule_request">> ELSE <<>>)
          \o (IF load.status \notin {COMPLETED, CANCELLED}
              THEN <<"add_accessorial">> ELSE <<>>)
     ELSE <<>>)
    \o (IF role = "tracking_agent"
        THEN (IF load.status = DISPATCHED THEN <<"start_transit">> ELSE <<>>)
             \o (IF load.status = IN_TRANSIT THEN <<"mark_delivered">> ELSE <<>>)
             \o (IF load.status = DELIVERED THEN <<"complete_load">> ELSE <<>>)
             \o (IF load.status \in {DISPATCHED, IN_TRANSIT}
                 THEN <<"add_tracking_update">> ELSE <<>>)
             \o (IF load.status \notin {COMPLETED, CANCELLED, DELIVERED}
                 THEN <<"create_reschedule_request">> ELSE <<>>)
             \o (IF load.status \notin {COMPLETED, CANCELLED}
                 THEN <<"add_accessorial">> ELSE <<>>)
        ELSE <<>>)
    \o (IF Truthy(load.driver) THEN <<"view_driver_hos">> ELSE <<>>)
    \o <<"upload_document">>

\* GET of load_detail by a user of the given role: the page is rendered with
\* the available actions and nothing is written; the observation holds the
\* list of the policy module and the list of the method for the same user
get_available_actions(role) ==
    /\ last' = [op |-> "get_available_actions", error |-> <<>>, role |-> role,
                actions |-> actions_for(role),
                method_actions |-> Load_get_available_actions(role)]
    /\ UNCHANGED <<requests, reschedule_requests, schema, now, load, documents, stops,
                   handovers, accessorials, truck_status>>

InitPolicy ==
    /\ schema \in Schemas
    /\ now = 0
    /\ load = NewLoad
    /\ documents = {}
    /\ stops = <<>>
    /\ handovers = <<>>
    /\ accessorials = <<>>
    /\ truck_status = "assigned"
    /\ last = NoCall
    /\ requests = <<>>
    /\ reschedule_requests = <<>>

NextPolicy ==
    \/ \E a \in Agents : handover_to_tracking(a)
    \/ start_transit
    \/ mark_delivered
    \/ complete_load
    \/ cancel
    \/ \E t \in DocTypes : upload_document(t)
    \/ \E c \in {NULL, TheCarrier}, t \in {NULL, TheTruck}, d \in {NULL, TheDriver} :
          load_detail(c, t, d)
    \/ create_stop
    \/ \E i \in 1..MaxStops : mark_completed(i)
    \/ \E role \in Roles : get_available_actions(role)

SpecPolicy == InitPolicy /\ [][NextPolicy]_vars

\* two renderings of the page of one load.  requests keeps the first GET of
\* load_detail: the role of its user, what the load was like and the action
\* list the page got; last is the GET made in the step.
load_detail_get(role) ==
    /\ last' = [op |-> "get_available_actions", error |-> <<>>, role |-> role,
                actions |-> actions_for(role)]
    /\ requests' =
          IF requests # <<>> THEN requests
          ELSE <<[role |-> role, status |-> load.status,
                  driver |-> load.driver # NULL, carrier |-> load.carrier # NULL,
                  truck |-> load.truck # NULL,
                  rate_confirmation |-> "RC" \in documents,
                  stops_ready |-> (schema = "multi"
                                     => /\ stops # <<>>
                                        /\ \A i \in DOMAIN stops :
                                              stops[i].appointment_type = "appt"
                                                => (stops[i].appt_start # NoTime
                                                    \/ stops[i].appt_end # NoTime)),
                  actions |-> actions_for(role)]>>
    /\ UNCHANGED <<reschedule_requests, schema, now, load, documents, stops,
                   handovers, accessorials, truck_status>>

NextPolicyPair ==
    \/ \E a \in Agents : handover_to_tracking(a)
    \/ start_transit
    \/ cancel
    \/ upload_document("RC")
    \/ \E c \in {NULL, TheCarrier}, t \in {NULL, TheTruck}, d \in {NULL, TheDriver} :
          load_detail(c, t, d)
    \/ create_stop
    \/ \E role \in Roles : load_detail_get(role)

SpecPolicyPair == InitPolicy /\ [][NextPolicyPair]_vars

\* ---------------------------------------------------------------------------
\* The views behind create_reschedule_request, update_reschedule_approvals
\* and add_accessorial on a load that is cancelled along the way: each view
\* fetches the load, tests the role of the user and goes on.
\* ---------------------------------------------------------------------------
NextGate ==
    \/ cancel
    \/ \E stop \in 0..MaxStops, t \in Times, c \in BOOLEAN, b \in BOOLEAN, m \in BOOLEAN :
          create_reschedule_request(stop, t, c, b, m)
    \/ \E i \in 1..MaxReschedules, c \in BOOLEAN, b \in BOOLEAN, m \in BOOLEAN :
          update_reschedule_approvals(i, c, b, m)
    \/ \E role \in Roles :
          create_accessorial(role, Accessorial("other", NoAmount, FALSE, FALSE,
                                               NoDetention, NoLayover))

SpecGate == InitReschedule /\ [][NextGate]_vars

\* ---------------------------------------------------------------------------
\* Creation of a load with its stops: services/load_creation.py.  The stop
\* formset is a sequence of forms that passed is_valid; an extra form left
\* blank has neither facility nor stop_type, and a form can carry DELETE.
\* ---------------------------------------------------------------------------
MaxForms == 3

TheFacility == "facility1"

Dispatchers == {Dispatcher, "dispatcher_user2"}

\* no Load row yet
NoLoad == [NewLoad EXCEPT !.status = NULL, !.dispatcher = NULL]

StopForm(DELETE, facility, stop_type, appointment_type, appt_start, appt_end) ==
    [DELETE |-> DELETE, facility |-> facility, stop_type |-> stop_type,
     appointment_type |-> appointment_type,
     appt_start |-> appt_start, appt_end |-> appt_end]

\* the forms posted: the blank extra form, a form marked for deletion of
\* either type, and pickups and deliveries that are fcfs or appt with a
\* start, with an end, or with neither
StopForms ==
    {StopForm(FALSE, NULL, NULL, NULL, NoTime, NoTime)}
    \cup {StopForm(TRUE, TheFacility, t, "fcfs", NoTime, NoTime) : t \in {PICKUP, DELIVERY}}
    \cup {StopForm(FALSE, TheFacility, t, "fcfs", NoTime, NoTime) : t \in {PICKUP, DELIVERY}}
    \cup {StopForm(FALSE, TheFacility, t, "appt", w[1], w[2]) :
            t \in {PICKUP, DELIVERY},
            w \in {<<0, NoTime>>, <<NoTime, 0>>, <<NoTime, NoTime>>}}

StopFormSets == UNION {[1..n -> StopForms] : n \in 0..MaxForms}

\* variant: forms marked for deletion are counted
ValidatedStops_KeepsDeleted(stop_formset) ==
    LET keep(f) == ~(~Truthy(f.facility) /\ ~Truthy(f.stop_type))
    IN  SelectSeq(stop_formset, keep)

\* the loop of _validate_stops_business_rules: the cleaned_data it keeps
ValidatedStops(stop_formset) ==
    LET keep(f) == ~f.DELETE /\ ~(~Truthy(f.facility) /\ ~Truthy(f.stop_type))
    IN  SelectSeq(stop_formset, keep)

\* _validate_stops_business_rules: the ServiceError it raises, if any
_validate_stops_business_rules(stop_formset) ==
    LET stps == ValidatedStops(stop_formset)
        has_pickup == \E i \in DOMAIN stps : stps[i].stop_type = PICKUP
        has_delivery == \E i \in DOMAIN stps : stps[i].stop_type = DELIVERY
    IN  IF Len(stps) < 2
        THEN <<"At least 2 stops (Pickup and Delivery) are required.">>
        ELSE IF ~has_pickup \/ ~has_delivery
        THEN <<"Route must include at least 1 Pickup and 1 Delivery stop.">>
        ELSE IF \E i \in DOMAIN stps :
                  /\ stps[i].appointment_type = "appt"
                  /\ ~(TimeSet(stps[i].appt_start) \/ TimeSet(stps[i].appt_end))
        THEN <<"For APPT stops, provide at least appt_start (or a window).">>
        ELSE <<>>

\* stop_formset.save(commit=False): an instance for every form that was
\* filled in and is not marked for deletion, in the order of the forms
formset_save(stop_formset) ==
    LET changed(f) == ~f.DELETE /\ (Truthy(f.facility) \/ Truthy(f.stop_type))
        forms == SelectSeq(stop_formset, changed)
    IN  [i \in DOMAIN forms |->
            LoadStop(forms[i].stop_type, forms[i].appointment_type,
                     forms[i].appt_start, forms[i].appt_end)]

\* variant: the numbering starts at 0
assign_sequence_ZeroBased(instances) ==
    [i \in DOMAIN instances |->
        [f \in DOMAIN instances[i] \cup {"sequence"} |->
            IF f = "sequence" THEN i - 1 ELSE instances[i][f]]]

\* the loop `for i, stop in enumerate(stops, start=1)`: stop.sequence = i
assign_sequence(instances) ==
    [i \in DOMAIN instances |->
        [f \in DOMAIN instances[i] \cup {"sequence"} |->
            IF f = "sequence" THEN i ELSE instances[i][f]]]

\* requests holds the POST being served: the dispatcher who sent it and the
\* stop formset it carries
InitCreate ==
    /\ schema = "multi"
    /\ now = 0
    /\ load = NoLoad
    /\ documents = {}
    /\ stops = <<>>
    /\ handovers = <<>>
    /\ accessorials = <<>>
    /\ truck_status = "assigned"
    /\ last = NoCall
    /\ \E dispatcher \in Dispatchers, stop_formset \in StopFormSets :
          requests = <<[dispatcher |-> dispatcher, stop_formset |-> stop_formset]>>
    /\ reschedule_requests = <<>>

\* the load gets the dispatcher and every saved stop its sequence number
create_load_with_stops(dispatcher, stop_formset) ==
    /\ last = NoCall
    /\ IF _validate_stops_business_rules(stop_formset) # <<>>
       THEN /\ last' = Call("create_load_with_stops",
                             _validate_stops_business_rules(stop_formset))
            /\ UNCHANGED <<load, stops>>
       ELSE /\ load' = [NewLoad EXCEPT !.dispatcher = dispatcher]
            /\ stops' = assign_sequence(formset_save(stop_formset))
            /\ last' = Call("create_load_with_stops", <<>>)
    /\ UNCHANGED <<requests, reschedule_requests, schema, now, documents, handovers,
                   accessorials, truck_status>>

\* a save inside the `with transaction.atomic()` block raises: the block
\* rolls back the Load row and the stops saved so far
create_load_with_stops_fails(dispatcher, stop_formset) ==
    /\ last = NoCall
    /\ _validate_stops_business_rules(stop_formset) = <<>>
    /\ last' = Call("create_load_with_stops", RAISED)
    /\ UNCHANGED <<requests, reschedule_requests, schema, now, load, documents, stops,
                   handovers, accessorials, truck_status>>

NextCreate ==
    \/ create_load_with_stops(requests[1].dispatcher, requests[1].stop_formset)
    \/ create_load_with_stops_fails(requests[1].dispatcher, requests[1].stop_formset)

SpecCreate == InitCreate /\ [][NextCreate]_vars

\* ---------------------------------------------------------------------------
\* change_status requests next to reschedule requests on the same load.  The
\* Load object of a change_status request is the row as it was fetched;
\* Load._transition saves every column of it, while RescheduleRequest.save
\* writes the schedule column of the committed row.  A write to the row waits
\* while another transaction holds its lock.
\* ---------------------------------------------------------------------------
InitStale ==
    /\ schema = "single"
    /\ now = 0
    /\ \E t \in Times :
          load = [NewLoad EXCEPT !.carrier = TheCarrier, !.truck = TheTruck,
                                 !.driver = TheDriver, !.delivery_datetime = t]
    /\ documents = {"RC"}
    /\ stops = <<>>
    /\ handovers = <<>>
    /\ accessorials = <<>>
    /\ truck_status = "assigned"
    /\ last = NoCall
    /\ requests = <<>>
    /\ reschedule_requests = <<>>

\* the two reschedule views once the row of the load is free
create_reschedule_request_unlocked(new_appointment, c, b, m) ==
    /\ ~RowLocked
    /\ create_reschedule_request(0, new_appointment, c, b, m)

update_reschedule_approvals_unlocked(i, c, b, m) ==
    /\ ~RowLocked
    /\ update_reschedule_approvals(i, c, b, m)

NextStale ==
    \/ \E action \in {"handover", "cancel"} : get_object_or_404(action, "tracker1")
    \/ \E r \in 1..MaxRequests : call_transition(r)
    \/ \E r \in 1..MaxRequests : side_effects(r)
    \/ \E t \in Times, c \in BOOLEAN, b \in BOOLEAN, m \in BOOLEAN :
          create_reschedule_request_unlocked(t, c, b, m)
    \/ \E i \in 1..MaxReschedules, c \in BOOLEAN, b \in BOOLEAN, m \in BOOLEAN :
          update_reschedule_approvals_unlocked(i, c, b, m)

SpecStale == InitStale /\ [][NextStale]_vars

\* ---------------------------------------------------------------------------
\* Two loads that were given the same truck (LoadForm offers every truck of
\* the carrier).  load, documents, handovers and accessorials belong to the
\* first load; requests[1] holds the row of the second load with its
\* Handover and Accessorial rows; truck_status is the status of the truck.
\* ---------------------------------------------------------------------------
OtherLoad == requests[1]

InitFleet ==
    /\ schema = "single"
    /\ now = 0
    /\ \E t \in Times, miles \in {NoAmount, MaxAmount}, rate \in {NoAmount, 1} :
          load = LoadSave([NewLoad EXCEPT !.carrier = TheCarrier, !.truck = TheTruck,
                                          !.driver = TheDriver, !.delivery_datetime = t,
                                          !.miles = miles, !.rate = rate])
    /\ documents = {"RC"}
    /\ stops = <<>>
    /\ handovers = <<>>
    /\ accessorials = <<>>
    /\ truck_status = "assigned"
    /\ last = NoCall
    /\ requests = <<[load |-> [NewLoad EXCEPT !.carrier = TheCarrier, !.truck = TheTruck,
                                              !.driver = TheDriver],
                     handovers |-> <<>>, accessorials |-> <<>>]>>
    /\ reschedule_requests = <<>>

\* cancel() called on the second load
cancel_other ==
    IF OtherLoad.load.status \in CancelRefused
    THEN /\ last' = [op |-> "cancel",
                     error |-> <<"Load is already CANCELLED, DELIVERED or COMPLETED.">>,
                     on |-> "other"]
         /\ UNCHANGED <<requests, reschedule_requests, schema, now, load, documents,
                        stops, handovers, accessorials, truck_status>>
    ELSE LET l == _transition(OtherLoad.load, CANCELLED, [cancelled_at |-> now])
         IN  /\ requests' = <<[OtherLoad EXCEPT
                                  !.load = l,
                                  !.accessorials = Append(@, TonuCharge(l))]>>
             /\ truck_status' = FreeTruck(l)
             /\ last' = [op |-> "cancel", error |-> <<>>, on |-> "other"]
             /\ now' = now + 1
             /\ UNCHANGED <<reschedule_requests, schema, load, documents, stops,
                            handovers, accessorials>>

NextFleet ==
    \/ \E a \in Agents : handover_to_tracking(a)
    \/ start_transit
    \/ mark_delivered
    \/ complete_load
    \/ cancel
    \/ \E t \in DocTypes : upload_document(t)
    \/ cancel_other

SpecFleet == InitFleet /\ [][NextFleet]_vars

\* ---------------------------------------------------------------------------
\* The view change_status, one request at a time, with the other views a
\* user drives a load with: document upload and the edit form of the load.
\* views.py imports Load from tms/models.py, the single-facility schema.
\* ---------------------------------------------------------------------------
\* values of the URL segment <str:action>: the four the view dispatches and
\* the name under which the policy offers the delivery
ChangeStatusActions ==
    {"handover", "start_transit", "complete", "cancel", "mark_delivered"}

\* the view answers a missing User row with 404 and every other outcome
\* with a message and a redirect
change_status_answer(error) ==
    /\ last' = Call("change_status", error)
    /\ UNCHANGED <<requests, reschedule_requests, schema, now, load, documents,
                   stops, handovers, accessorials, truck_status>>

change_status(method, action, tracking_agent) ==
    IF method # "POST"
    THEN change_status_answer(<<"Invalid request method.">>)
    ELSE IF action = "handover"
    THEN (IF tracking_agent = NULL
          THEN change_status_answer(<<"Http404">>)
          ELSE handover_to_tracking(tracking_agent))
    ELSE IF action = "start_transit"
    THEN start_transit
    ELSE IF action = "complete"
    THEN complete_load
    ELSE IF action = "cancel"
    THEN cancel
    ELSE change_status_answer(<<"Unknown action: ", action>>)

\* a request of the view that ended without an error message
change_status_succeeds ==
    /\ \E action \in ChangeStatusActions \ {"cancel"}, a \in Agents :
          change_status("POST", action, a)
    /\ last'.error = <<>>

InitChangeStatus ==
    /\ schema = "single"
    /\ now = 0
    /\ load = NewLoad
    /\ documents = {}
    /\ stops = <<>>
    /\ handovers = <<>>
    /\ accessorials = <<>>
    /\ truck_status = "assigned"
    /\ last = NoCall
    /\ requests = <<>>
    /\ reschedule_requests = <<>>

NextChangeStatus ==
    \/ \E method \in {"GET", "POST"}, action \in ChangeStatusActions,
           a \in Agents \cup {NULL} : change_status(method, action, a)
    \/ \E t \in DocTypes : upload_document(t)
    \/ \E c \in {NULL, TheCarrier}, t \in {NULL, TheTruck}, d \in {NULL, TheDriver} :
          load_detail(c, t, d)

\* the user keeps trying: every document is uploaded, the carrier, truck and
\* driver are entered, and a request of the view that can succeed again and
\* again is eventually sent
FairChangeStatus ==
    /\ \A t \in DocTypes : WF_vars(upload_document(t))
    /\ WF_vars(load_detail(TheCarrier, TheTruck, TheDriver))
    /\ SF_vars(change_status_succeeds)

SpecChangeStatus ==
    InitChangeStatus /\ [][NextChangeStatus]_vars /\ FairChangeStatus

\* ================================================================= claims
\* helpers of the claims, stated independently of the operators above
HandoverCalled == last'.op = "handover_to_tracking"

Failed == last'.error # <<>>

Succeeded == last'.error = <<>>

AssetsAssigned == load.carrier # NULL /\ load.truck # NULL /\ load.driver # NULL

StopLacksWindow(stop) ==
    stop.appointment_type = "appt" /\ stop.appt_start = NoTime /\ stop.appt_end = NoTime

DeliveryStopOpen(stop) ==
    stop.stop_type = DELIVERY /\ stop.status \notin {"completed", "skipped"}

Untouched == load' = load /\ handovers' = handovers /\ accessorials' = accessorials

LegalEdges ==
    { <<BOOKED, DISPATCHED>>, <<DISPATCHED, IN_TRANSIT>>, <<IN_TRANSIT, DELIVERED>>,
      <<DELIVERED, COMPLETED>>, <<BOOKED, CANCELLED>>, <<DISPATCHED, CANCELLED>>,
      <<IN_TRANSIT, CANCELLED>> }

StatusProblem(op) ==
    CASE op = "handover_to_tracking" -> "Load is not in BOOKED status."
      [] op = "start_transit" -> "Load is not in DISPATCHED status."
      [] op = "mark_delivered" -> "Load is not in IN_TRANSIT status."
      [] op = "complete_load" -> "Load is not in DELIVERED status."
      [] op = "cancel" -> "Load is already CANCELLED, DELIVERED or COMPLETED."

Ineligible(op, status) ==
    CASE op = "handover_to_tracking" -> status # BOOKED
      [] op = "start_transit" -> status # DISPATCHED
      [] op = "mark_delivered" -> status # IN_TRANSIT
      [] op = "complete_load" -> status # DELIVERED
      [] op = "cancel" -> status \in {CANCELLED, DELIVERED, COMPLETED}

Transitions ==
    {"handover_to_tracking", "start_transit", "mark_delivered", "complete_load", "cancel"}

C3_DispatchNeedsPreconditions ==
    [][/\ (load'.status = DISPATCHED /\ load.status # DISPATCHED)
          => (HandoverCalled /\ load.status = BOOKED /\ "RC" \in documents
              /\ AssetsAssigned)
       /\ (HandoverCalled /\ ~(load.status = BOOKED /\ "RC" \in documents
                               /\ AssetsAssigned))
          => (Failed /\ load'.status = load.status)]_vars

C3_Witness ==
    /\ last.op = "handover_to_tracking"
    /\ last.error = <<"Cannot handover load: ",
                      "Carrier, Truck, and Driver must be assigned.">>
    /\ load.carrier # NULL /\ load.truck # NULL /\ load.driver = NULL
    /\ load.status = BOOKED

\* C4: in the multi-stop schema a handover_to_tracking call on a load with
\* fewer than 2 stops is rejected, so such a load does not become DISPATCHED.
C4_FewerThanTwoStopsRejected ==
    [][(HandoverCalled /\ schema = "multi" /\ Len(stops) < 2)
       => (Failed /\ load'.status # DISPATCHED)]_vars

\* C5: a handover_to_tracking call is rejected whenever some stop has mode
\* appt and neither appt_start nor appt_end, and the appointment complaint is
\* raised for no other stop: a stop of mode fcfs never blocks.
C5_ApptStopBlocksHandover ==
    [][HandoverCalled
       => /\ (\E i \in DOMAIN stops : StopLacksWindow(stops[i]))
             => (Failed /\ Untouched)
          /\ ("All APPT stops must have at least appt_start (or a window)."
                 \in Range(last'.error))
             => (\E i \in DOMAIN stops : StopLacksWindow(stops[i]))
          /\ (load.status = BOOKED /\ "RC" \in documents /\ AssetsAssigned
              /\ stops # <<>> /\ \A i \in DOMAIN stops : ~StopLacksWindow(stops[i]))
             => Succeeded]_vars

C5_Witness ==
    /\ last.op = "handover_to_tracking"
    /\ last.error = <<"Cannot handover load: ",
                      "All APPT stops must have at least appt_start (or a window).">>
    /\ \E i \in DOMAIN stops :
          stops[i].appointment_type = "fcfs" /\ stops[i].appt_start = NoTime
          /\ stops[i].appt_end = NoTime

\* C6: a successful handover_to_tracking(agent) leaves the status DISPATCHED,
\* dispatched_at at the time of the call and tracking_agent at agent, and adds
\* exactly one Handover row, from the load's dispatcher to agent.
C6_HandoverEffect ==
    [][(HandoverCalled /\ Succeeded)
       => \A a \in Agents :
          handover_to_tracking(a)
          => /\ load'.status = DISPATCHED
             /\ load'.dispatched_at = now
             /\ load'.tracking_agent = a
             /\ handovers' = Append(handovers,
                                    [from_agent |-> load.dispatcher, to_agent |-> a])]_vars

C6_Witness ==
    /\ last.op = "handover_to_tracking"
    /\ last.error = <<>>
    /\ load.status = DISPATCHED
    /\ load.dispatched_at = 1
    /\ load.tracking_agent = "tracker2"

\* C7: a load has at most one Handover row; the row appears exactly in a
\* successful handover_to_tracking call, and no failed handover and no other
\* operation adds, changes or removes one.
C7_OneHandoverPerDispatch ==
    [][/\ Len(handovers') <= 1
       /\ (HandoverCalled /\ Succeeded) => (handovers = <<>> /\ Len(handovers') = 1)
       /\ (handovers' # handovers) => (HandoverCalled /\ Succeeded)]_vars

C7_Witness ==
    /\ Len(handovers) = 1
    /\ load.status = COMPLETED
    /\ last.op = "handover_to_tracking"
    /\ last.error # <<>>

\* the unmet preconditions of a handover and the fragment each one contributes
UnmetFragments ==
    (IF load.status # BOOKED THEN {"Load is not in BOOKED status."} ELSE {})
    \cup (IF "RC" \notin documents THEN {"Rate Confirmation document is missing."} ELSE {})
    \cup (IF ~AssetsAssigned THEN {"Carrier, Truck, and Driver must be assigned."} ELSE {})
    \cup (IF schema = "multi" /\ Len(stops) = 0
          THEN {"At least 2 stops must be defined for the load."} ELSE {})
    \cup (IF \E i \in DOMAIN stops : StopLacksWindow(stops[i])
          THEN {"All APPT stops must have at least appt_start (or a window)."} ELSE {})

\* C8: the message of a failed handover_to_tracking contains the fragment of
\* every unmet precondition (wrong status, RC missing, assets not all
\* assigned, no stops, an appt stop without a window), not only of the first.
C8_AllUnmetListed ==
    [][(HandoverCalled /\ Failed) => UnmetFragments \subseteq Range(last'.error)]_vars

C8_Witness ==
    /\ last.op = "handover_to_tracking"
    /\ "Rate Confirmation document is missing." \in Range(last.error)
    /\ "Carrier, Truck, and Driver must be assigned." \in Range(last.error)
    /\ "All APPT stops must have at least appt_start (or a window)." \in Range(last.error)
    /\ "Load is not in BOOKED status." \in Range(last.error)

MarkDeliveredCalled == last'.op = "mark_delivered"

MissingLabels ==
    (IF "POD" \notin documents THEN {"Proof of Delivery"} ELSE {})
    \cup (IF "BOL" \notin documents THEN {"Bill of Lading"} ELSE {})

DeliveredNeedsPreconditions ==
    (load'.status = DELIVERED /\ load.status # DELIVERED)
    => (MarkDeliveredCalled /\ load.status = IN_TRANSIT
        /\ "POD" \in documents /\ "BOL" \in documents)

\* C9 as stated: the status becomes DELIVERED only in a mark_delivered call
\* made in IN_TRANSIT with POD and BOL present, and a call in IN_TRANSIT with
\* a required document missing fails with a message naming each missing type
\* by its label, the status staying IN_TRANSIT.
C9_Original ==
    [][/\ DeliveredNeedsPreconditions
       /\ (MarkDeliveredCalled /\ load.status = IN_TRANSIT /\ MissingLabels # {})
          => /\ Failed
             /\ MissingLabels \subseteq Range(last'.error)
             /\ load'.status = IN_TRANSIT]_vars

\* C9 amended: as C9, but the message names the missing types only when no
\* delivery stop is still open; with an open delivery stop the call fails on
\* the stop check first and the status stays IN_TRANSIT all the same.
C9_MissingDocumentRejected ==
    [][/\ DeliveredNeedsPreconditions
       /\ (MarkDeliveredCalled /\ load.status = IN_TRANSIT /\ MissingLabels # {})
          => /\ Failed
             /\ load'.status = IN_TRANSIT
             /\ (~\E i \in DOMAIN stops : DeliveryStopOpen(stops[i]))
                => MissingLabels \subseteq Range(last'.error)]_vars

C9_Witness ==
    /\ last.op = "mark_delivered"
    /\ last.error = <<"Cannot mark as delivered. These documents are missing: ",
                      "Proof of Delivery">>
    /\ "BOL" \in documents
    /\ load.status = IN_TRANSIT

\* C10: a mark_delivered call is rejected whenever some delivery stop is
\* neither completed nor skipped, and the stop complaint is raised only then:
\* pickup stops, whatever their status, do not block.
C10_OpenDeliveryStopBlocks ==
    [][MarkDeliveredCalled
       => /\ (\E i \in DOMAIN stops : DeliveryStopOpen(stops[i]))
             => (Failed /\ Untouched)
          /\ ("Cannot mark as delivered. All delivery stops must be completed or skipped."
                 \in Range(last'.error))
             => (\E i \in DOMAIN stops : DeliveryStopOpen(stops[i]))
          /\ (load.status = IN_TRANSIT /\ MissingLabels = {}
              /\ ~\E i \in DOMAIN stops : DeliveryStopOpen(stops[i]))
             => (Succeeded /\ load'.status = DELIVERED)]_vars

C10_Witness ==
    /\ last.op = "mark_delivered"
    /\ last.error = <<>>
    /\ load.status = DELIVERED
    /\ \E i \in DOMAIN stops : stops[i].stop_type = PICKUP /\ stops[i].status = PENDING
    /\ \E i \in DOMAIN stops : stops[i].stop_type = DELIVERY /\ stops[i].status = SKIPPED

\* the status a transition leads to and the timestamps it owns
Target(op) ==
    CASE op = "handover_to_tracking" -> DISPATCHED
      [] op = "start_transit" -> IN_TRANSIT
      [] op = "mark_delivered" -> DELIVERED
      [] op = "complete_load" -> COMPLETED
      [] op = "cancel" -> CANCELLED

OwnMilestones(op) ==
    CASE op = "handover_to_tracking" -> {"dispatched_at"}
      [] op = "start_transit" ->
            IF schema = "single" THEN {"pickup_departure_at"} ELSE {}
      [] op = "mark_delivered" -> {"delivered_at"}
      [] op = "complete_load" -> {"completed_at"}
      [] op = "cancel" -> {"cancelled_at"}

Milestones ==
    {"dispatched_at", "pickup_departure_at", "delivered_at", "completed_at",
     "cancelled_at"}

C12_MilestoneWrittenOnce ==
    [][\A f \in {"dispatched_at", "delivered_at", "completed_at", "cancelled_at"} :
          load[f] # NoTime => load'[f] = load[f]]_vars

C12_Witness ==
    /\ load.dispatched_at # NoTime
    /\ load.cancelled_at # NoTime
    /\ load.cancelled_at > load.dispatched_at
    /\ last.op = "handover_to_tracking"
    /\ last.error # <<>>

CancelCalled == last'.op = "cancel"

\* C13: a successful cancel starts in BOOKED, DISPATCHED or IN_TRANSIT, ends
\* in CANCELLED and adds exactly one Accessorial row: charge type TONU, amount
\* 0, created by the load's dispatcher, neither approval flag set.  The rows
\* that existed stay as they were and a failed cancel adds none.
C13_CancelCreatesOneTonu ==
    [][CancelCalled
       => /\ Succeeded
             => /\ load.status \in {BOOKED, DISPATCHED, IN_TRANSIT}
                /\ load'.status = CANCELLED
                /\ Len(accessorials') = Len(accessorials) + 1
                /\ SubSeq(accessorials', 1, Len(accessorials)) = accessorials
                /\ LET a == accessorials'[Len(accessorials')]
                   IN  /\ a.charge_type = "tonu"
                       /\ a.amount = 0
                       /\ a.created_by = load.dispatcher
                       /\ ~a.manager_approved /\ ~a.broker_approved
          /\ Failed => accessorials' = accessorials]_vars

C13_Witness ==
    /\ last.op = "cancel"
    /\ last.error = <<>>
    /\ load.status = CANCELLED
    /\ load.dispatched_at # NoTime
    /\ Len(accessorials) = 1
    /\ accessorials[1].charge_type = "tonu"
    /\ accessorials[1].created_by = Dispatcher

\* C14: the description of the TONU row created by a successful cancel names
\* the status the load had before the call, not CANCELLED.
C14_DescriptionNamesPriorStatus ==
    [][(CancelCalled /\ Succeeded)
       => LET a == accessorials'[Len(accessorials')]
          IN  /\ StatusLabel(load.status) \in Range(a.description)
              /\ StatusLabel(CANCELLED) \notin Range(a.description)]_vars

\* C15: a successful cancel on a load with a truck leaves that truck
\* available whatever its status was, a successful cancel on a load without
\* a truck leaves the truck row alone, and so does a failed cancel.
C15_CancelFreesTruck ==
    [][CancelCalled
       => /\ (Succeeded /\ load.truck # NULL) => truck_status' = "available"
          /\ (Succeeded /\ load.truck = NULL) => truck_status' = truck_status
          /\ Failed => truck_status' = truck_status]_vars

C15_Witness ==
    /\ last.op = "cancel"
    /\ last.error = <<>>
    /\ load.truck = TheTruck
    /\ load.status = CANCELLED
    /\ load.pickup_departure_at # NoTime
    /\ truck_status = "available"

HasTonu(rows) == \E i \in DOMAIN rows : rows[i].charge_type = "tonu"

\* C16: a transition is all or nothing on what is committed.  The step in
\* which a side-effect write of a request fails leaves the committed load,
\* Handover rows, Accessorial rows and truck as they were, and at no time is
\* a load committed as DISPATCHED without a Handover row or as CANCELLED
\* without a TONU row.
C16_AllOrNothing ==
    [][/\ load'.status = DISPATCHED => handovers' # <<>>
       /\ load'.status = CANCELLED => HasTonu(accessorials')
       /\ \A r \in DOMAIN requests :
             (requests[r].pc = "written" /\ requests'[r].error = <<"database error">>)
             => /\ load' = load
                /\ handovers' = handovers
                /\ accessorials' = accessorials
                /\ truck_status' = truck_status]_vars

C16_Witness ==
    /\ \E r \in DOMAIN requests :
          /\ requests[r].error = <<"database error">>
          /\ requests[r].action = "cancel"
          /\ requests[r].load.status = CANCELLED
    /\ load.status = BOOKED
    /\ load.cancelled_at = NoTime
    /\ accessorials = <<>>
    /\ truck_status = "assigned"

SucceededRequest(r) == requests[r].pc = "done" /\ requests[r].error = <<>>

\* C17: of two requests that fetched the same load and call the same
\* transition (cancel, or handover_to_tracking) at most one succeeds, and the
\* load never has two TONU rows or two Handover rows.
C17_NoStaleDoubleTransition ==
    /\ \A r1, r2 \in DOMAIN requests :
          (r1 # r2 /\ requests[r1].action = requests[r2].action)
          => ~(SucceededRequest(r1) /\ SucceededRequest(r2))
    /\ Len(accessorials) <= 1
    /\ Len(handovers) <= 1

\* rpm, in hundredths, is rate / miles to the nearest hundredth
IsRateOverMiles(rpm, rate, miles) ==
    /\ 2 * (rpm * miles - rate * 100) <= miles
    /\ 2 * (rate * 100 - rpm * miles) <= miles

\* C18: a saved load has rpm = rate / miles when rate and miles are both
\* present and miles > 0, a rate of 0 included (rpm is then 0), and has no
\* rpm otherwise, whatever rpm the caller supplied.
C18_RpmIsRateOverMiles ==
    IF load.rate # NoAmount /\ load.miles # NoAmount /\ load.miles > 0
    THEN load.rpm # NoAmount /\ IsRateOverMiles(load.rpm, load.rate, load.miles)
    ELSE load.rpm = NoAmount

RescheduleSaved ==
    last'.op \in {"create_reschedule_request", "update_reschedule_approvals"}

AllApproved(rr) ==
    rr.consignee_approved = TRUE /\ rr.broker_approved = TRUE
    /\ rr.manager_approved = TRUE

ScheduleBefore(rr) ==
    IF schema = "single" THEN load.delivery_datetime ELSE stops[rr.stop].appt_start

ScheduleAfter(rr) ==
    IF schema = "single" THEN load'.delivery_datetime ELSE stops'[rr.stop].appt_start

ScheduleUnchanged ==
    /\ load'.delivery_datetime = load.delivery_datetime
    /\ \A i \in DOMAIN stops : stops'[i].appt_start = stops[i].appt_start

\* C19: a save of a reschedule request writes the schedule field exactly
\* when all three approval flags are true at that save.  With all three true
\* the field equals the request's new_appointment once the save has
\* returned; with a flag false no schedule field changes; and a save that
\* fails changes neither the schedule nor the flags.
C19_ScheduleWrittenIffApproved ==
    [][RescheduleSaved
       => IF Failed
          THEN ScheduleUnchanged /\ reschedule_requests' = reschedule_requests
          ELSE LET rr == reschedule_requests'[last'.request]
               IN  /\ AllApproved(rr) => ScheduleAfter(rr) = rr.new_appointment
                   /\ ~AllApproved(rr) => ScheduleUnchanged]_vars

C19_Witness ==
    /\ last.op = "update_reschedule_approvals"
    /\ last.error = <<>>
    /\ ~last.was_approved
    /\ LET rr == reschedule_requests[last.request]
       IN  /\ rr.consignee_approved /\ rr.broker_approved /\ rr.manager_approved
           /\ rr.new_appointment # rr.original_appointment
           /\ (IF schema = "single" THEN load.delivery_datetime
               ELSE stops[rr.stop].appt_start) = rr.new_appointment

\* C20: saving a fully approved reschedule request again with no flag
\* changed leaves the schedule field equal to the request's new_appointment,
\* and leaves every schedule field as it was when the new_appointment was
\* already in place.
C20_ResaveIsNoOp ==
    [][(last'.op = "update_reschedule_approvals" /\ Succeeded)
       => LET old == reschedule_requests[last'.request]
              rr == reschedule_requests'[last'.request]
          IN  (AllApproved(old) /\ rr = old)
              => /\ ScheduleAfter(rr) = rr.new_appointment
                 /\ ScheduleBefore(old) = old.new_appointment => ScheduleUnchanged]_vars

C20_Witness ==
    /\ last.op = "update_reschedule_approvals"
    /\ last.error = <<>>
    /\ last.was_approved
    /\ LET rr == reschedule_requests[last.request]
       IN  /\ rr.consignee_approved /\ rr.broker_approved /\ rr.manager_approved
           /\ rr.new_appointment > rr.original_appointment
           /\ (IF schema = "single" THEN load.delivery_datetime
               ELSE stops[rr.stop].appt_start) = rr.new_appointment

\* C21: when a fully approved request whose new_appointment is in place is
\* saved with one of its flags set back to false, the schedule field keeps
\* the new_appointment.
C21_UnapproveKeepsSchedule ==
    [][(last'.op = "update_reschedule_approvals" /\ Succeeded)
       => LET old == reschedule_requests[last'.request]
              rr == reschedule_requests'[last'.request]
          IN  (AllApproved(old) /\ ScheduleBefore(old) = old.new_appointment
               /\ ~AllApproved(rr))
              => /\ ScheduleAfter(rr) = old.new_appointment
                 /\ ScheduleUnchanged]_vars

C21_Witness ==
    /\ last.op = "update_reschedule_approvals"
    /\ last.error = <<>>
    /\ last.was_approved
    /\ LET rr == reschedule_requests[last.request]
       IN  /\ ~rr.manager_approved
           /\ rr.consignee_approved /\ rr.broker_approved
           /\ rr.new_appointment # rr.original_appointment
           /\ (IF schema = "single" THEN load.delivery_datetime
               ELSE stops[rr.stop].appt_start) = rr.new_appointment

\* C22: when a fully approved request is saved again with its flags unchanged
\* after something else has changed the schedule field, the field is left as
\* it is: the request is not applied a second time.
C22_AppliedOnce ==
    [][(last'.op = "update_reschedule_approvals" /\ Succeeded)
       => LET old == reschedule_requests[last'.request]
              rr == reschedule_requests'[last'.request]
          IN  (AllApproved(old) /\ rr = old
               /\ ScheduleBefore(old) # old.new_appointment)
              => ScheduleUnchanged]_vars

AccessorialSaved ==
    /\ last'.op \in {"create_accessorial", "edit_accessorial"}
    /\ Succeeded

BothApproved(a) == a.manager_approved /\ a.broker_approved

\* C23: for every accessorial, is_approved is the conjunction of its
\* manager_approved and broker_approved flags, the displayed approval status
\* is APPROVED exactly then and PENDING otherwise, and the row stores no
\* approval value of its own.
C23_ApprovalIsComputed ==
    /\ \A i \in DOMAIN accessorials :
          LET a == accessorials[i]
          IN  /\ is_approved(a) = BothApproved(a)
              /\ get_approval_status_display(a)
                   = (IF BothApproved(a) THEN "APPROVED" ELSE "PENDING")
              /\ DOMAIN a \cap {"is_approved", "approval_status"} = {}
    /\ (last.op \in {"create_accessorial", "edit_accessorial"} /\ last.error = <<>>)
          => last.approval_status
               = (IF BothApproved(accessorials[last.index]) THEN "APPROVED" ELSE "PENDING")

C23_Witness ==
    /\ last.op = "edit_accessorial"
    /\ last.error = <<>>
    /\ accessorials[last.index].manager_approved
    /\ ~accessorials[last.index].broker_approved
    /\ last.approval_status = "PENDING"

TypeRequirementsMet(a) ==
    /\ a.charge_type = "detention"
          => /\ a.detention_start # NoTime
             /\ a.detention_end # NoTime
             /\ a.detention_end > a.detention_start
             /\ a.detention_billed_hours # NoAmount
             /\ a.detention_billed_hours > 0
    /\ a.charge_type = "layover"
          => /\ a.layover_start_date # NoTime
             /\ a.layover_end_date # NoTime
             /\ a.layover_end_date >= a.layover_start_date

\* C25: an accessorial that is saved meets the requirements of its charge
\* type: a detention record has a start, a later end and billed hours above
\* zero, a layover record has a start date and an end date not before it.
C25_TypeRequirements ==
    [][AccessorialSaved => TypeRequirementsMet(accessorials'[last'.index])]_vars

PolicyCalled == last.op = "get_available_actions"

Offered(action) == \E i \in DOMAIN last.actions : last.actions[i] = action

RoleActions ==
    {"handover_to_tracking", "cancel_load", "create_reschedule_request",
     "add_accessorial", "start_transit", "mark_delivered", "complete_load",
     "add_tracking_update"}

\* a handover of the load would be accepted as it is
HandoverEligible ==
    /\ load.status = BOOKED
    /\ "RC" \in documents
    /\ AssetsAssigned
    /\ schema = "multi"
          => (stops # <<>> /\ \A i \in DOMAIN stops : ~StopLacksWindow(stops[i]))

PolicyTable(role) ==
    LET open == load.status \notin {COMPLETED, DELIVERED, CANCELLED}
        chargeable == load.status \notin {COMPLETED, CANCELLED}
    IN  CASE role = "dispatcher" ->
               {a \in {"handover_to_tracking"} : HandoverEligible}
               \cup {a \in {"cancel_load", "create_reschedule_request"} : open}
               \cup {a \in {"add_accessorial"} : chargeable}
          [] role = "tracking_agent" ->
               {a \in {"start_transit"} : load.status = DISPATCHED}
               \cup {a \in {"mark_delivered"} : load.status = IN_TRANSIT}
               \cup {a \in {"complete_load"} : load.status = DELIVERED}
               \cup {a \in {"add_tracking_update"} :
                       load.status \in {DISPATCHED, IN_TRANSIT}}
               \cup {a \in {"create_reschedule_request"} : open}
               \cup {a \in {"add_accessorial"} : chargeable}
          [] OTHER -> {}

C27_CommonActions ==
    PolicyCalled
      => /\ Offered("upload_document")
         /\ Offered("view_driver_hos") <=> load.driver # NULL

C27_Witness ==
    /\ PolicyCalled
    /\ last.role = "manager"
    /\ load.status = COMPLETED
    /\ load.driver # NULL
    /\ Offered("upload_document")
    /\ Offered("view_driver_hos")

FirstGet == requests[1]

SameActions(first, second) == Range(first) = Range(second)

EligibleAtFirstGet ==
    /\ FirstGet.status = BOOKED
    /\ FirstGet.rate_confirmation
    /\ FirstGet.carrier /\ FirstGet.truck /\ FirstGet.driver
    /\ FirstGet.stops_ready

\* C28 as stated: the call writes nothing, and two calls that agree on the
\* role, the status and the presence of a driver return the same actions.
C28_Original ==
    [][(last'.op = "get_available_actions" /\ requests # <<>>)
       => /\ <<load', documents', stops', handovers', accessorials'>>
               = <<load, documents, stops, handovers, accessorials>>
          /\ (/\ FirstGet.role = last'.role
              /\ FirstGet.status = load.status
              /\ FirstGet.driver = (load.driver # NULL))
             => SameActions(FirstGet.actions, last'.actions)]_vars

\* C28 amended: the call writes nothing, and two calls that agree on the
\* role, the status, the presence of a driver and the eligibility of the load
\* for handover return the same actions.
C28_DeterminedByFour ==
    [][(last'.op = "get_available_actions" /\ requests # <<>>)
       => /\ <<load', documents', stops', handovers', accessorials'>>
               = <<load, documents, stops, handovers, accessorials>>
          /\ (/\ FirstGet.role = last'.role
              /\ FirstGet.status = load.status
              /\ FirstGet.driver = (load.driver # NULL)
              /\ EligibleAtFirstGet = HandoverEligible)
             => SameActions(FirstGet.actions, last'.actions)]_vars

C28_Witness ==
    /\ PolicyCalled
    /\ requests # <<>>
    /\ FirstGet.role = "dispatcher"
    /\ last.role = "dispatcher"
    /\ FirstGet.status = BOOKED
    /\ load.status = BOOKED
    /\ FirstGet.driver /\ load.driver # NULL
    /\ ~FirstGet.rate_confirmation
    /\ "RC" \in documents
    /\ FirstGet.truck
    /\ load.truck = NULL
    /\ SameActions(FirstGet.actions, last.actions)

\* C29: a reschedule request created or its approvals updated on a
\* COMPLETED, DELIVERED or CANCELLED load, and an accessorial added to a
\* COMPLETED or CANCELLED load, is refused and changes nothing.
C29_RefusedWhenNotOffered ==
    [][(\/ /\ last'.op \in {"create_reschedule_request", "update_reschedule_approvals"}
           /\ load.status \in {COMPLETED, DELIVERED, CANCELLED}
        \/ /\ last'.op = "create_accessorial"
           /\ load.status \in {COMPLETED, CANCELLED})
       => /\ Failed
          /\ <<load', stops', reschedule_requests', accessorials'>>
               = <<load, stops, reschedule_requests, accessorials>>]_vars

CreateCalled == last'.op = "create_load_with_stops"

\* positions of the forms that are neither blank nor marked for deletion
PostedStops(formset) ==
    {i \in DOMAIN formset : ~formset[i].DELETE /\ formset[i].stop_type # NULL}

RouteProblem(formset) ==
    \/ Cardinality(PostedStops(formset)) < 2
    \/ ~\E i \in PostedStops(formset) : formset[i].stop_type = PICKUP
    \/ ~\E i \in PostedStops(formset) : formset[i].stop_type = DELIVERY
    \/ \E i \in PostedStops(formset) :
          /\ formset[i].appointment_type = "appt"
          /\ formset[i].appt_start = NoTime
          /\ formset[i].appt_end = NoTime

\* C30: create_load_with_stops rejects a stop set with fewer than 2 stops
\* (forms that are blank or marked for deletion not counted), one without a
\* pickup or without a delivery, and one with an appt stop that has neither
\* appt_start nor appt_end; a rejected call leaves no Load and no stop, and a
\* call that succeeds leaves the load with the given dispatcher and one stop
\* for every posted stop.
C30_CreateValidatesRoute ==
    [][CreateCalled
       => LET formset == requests[1].stop_formset
          IN  /\ RouteProblem(formset) => Failed
              /\ Failed => (load' = load /\ stops' = stops /\ load'.status = NULL)
              /\ Succeeded
                   => /\ load'.status = BOOKED
                      /\ load'.dispatcher = requests[1].dispatcher
                      /\ Len(stops') = Cardinality(PostedStops(formset))
                      /\ \A n \in DOMAIN stops' :
                            \E i \in PostedStops(formset) :
                               /\ Cardinality({j \in PostedStops(formset) : j <= i}) = n
                               /\ stops'[n].stop_type = formset[i].stop_type
                               /\ stops'[n].appointment_type = formset[i].appointment_type
                               /\ stops'[n].appt_start = formset[i].appt_start
                               /\ stops'[n].appt_end = formset[i].appt_end
              /\ (~RouteProblem(formset) /\ last'.error # RAISED) => Succeeded]_vars

C30_Witness ==
    /\ last.op = "create_load_with_stops"
    /\ last.error = <<>>
    /\ load.dispatcher = "dispatcher_user2"
    /\ Len(requests[1].stop_formset) = 3
    /\ requests[1].stop_formset[2].DELETE
    /\ Len(stops) = 2
    /\ stops[1].stop_type = PICKUP
    /\ stops[2].stop_type = DELIVERY
    /\ stops[2].appointment_type = "appt"

\* C31: the stops of a load created by create_load_with_stops carry the
\* sequence numbers 1, 2, ..., n in the order of the posted forms: the numbers
\* start at 1, no two stops share one and none is left out.
C31_SequenceNumbers ==
    [][(CreateCalled /\ Succeeded)
       => /\ {stops'[n].sequence : n \in DOMAIN stops'} = 1..Len(stops')
          /\ \A n, m \in DOMAIN stops' :
                n # m => stops'[n].sequence # stops'[m].sequence
          /\ \A n, m \in DOMAIN stops' :
                n < m => stops'[n].sequence < stops'[m].sequence
          /\ Len(stops') = Cardinality(PostedStops(requests[1].stop_formset))]_vars

C31_Witness ==
    /\ last.op = "create_load_with_stops"
    /\ last.error = <<>>
    /\ Len(requests[1].stop_formset) = 3
    /\ requests[1].stop_formset[1].stop_type = NULL
    /\ Len(stops) = 2
    /\ stops[1].sequence = 1
    /\ stops[2].sequence = 2

\* the name under which the policy offers each transition
PolicyName(op) ==
    CASE op = "handover_to_tracking" -> "handover_to_tracking"
      [] op = "start_transit" -> "start_transit"
      [] op = "mark_delivered" -> "mark_delivered"
      [] op = "complete_load" -> "complete_load"
      [] op = "cancel" -> "cancel_load"

\* C32: a transition that the action list just rendered for the load offers
\* succeeds when it is called on the load in that state.
C32_OfferedTransitionSucceeds ==
    [][(/\ PolicyCalled
        /\ last'.op \in Transitions
        /\ Offered(PolicyName(last'.op)))
       => Succeeded]_vars

\* C33: a load that is DISPATCHED, IN_TRANSIT, DELIVERED or COMPLETED has a
\* carrier, a truck and a driver: no edit after the handover clears them.
C33_AssetsKeptAfterHandover ==
    load.status \in {DISPATCHED, IN_TRANSIT, DELIVERED, COMPLETED} => AssetsAssigned

C36_RescheduleNotLost ==
    \A i \in DOMAIN reschedule_requests :
       AllApproved(reschedule_requests[i])
         => load.delivery_datetime = reschedule_requests[i].new_appointment

TransitionCalled == last'.op \in Transitions

OnOther == "on" \in DOMAIN last'

Timestamps(l) ==
    <<l.dispatched_at, l.pickup_departure_at, l.delivered_at, l.completed_at,
      l.cancelled_at>>

C37_SharedTruckStaysAssigned ==
    [][(/\ last'.op = "cancel"
        /\ OnOther
        /\ load.status \in {DISPATCHED, IN_TRANSIT}
        /\ load.truck = OtherLoad.load.truck)
       => truck_status' # "available"]_vars

\* how far a status is from BOOKED
Rank(status) ==
    CASE status = BOOKED -> 0
      [] status = DISPATCHED -> 1
      [] status = IN_TRANSIT -> 2
      [] status = DELIVERED -> 3
      [] status \in {COMPLETED, CANCELLED} -> 4

C39_PoliciesAgree ==
    PolicyCalled
      => /\ last.actions = last.method_actions
         /\ \A i, j \in DOMAIN last.actions :
               i # j => last.actions[i] # last.actions[j]
         /\ \A i, j \in DOMAIN last.method_actions :
               i # j => last.method_actions[i] # last.method_actions[j]

C39_Witness ==
    /\ PolicyCalled
    /\ last.role = "tracking_agent"
    /\ load.status = IN_TRANSIT
    /\ load.driver # NULL
    /\ last.method_actions = <<"mark_delivered", "add_tracking_update",
                               "create_reschedule_request", "add_accessorial",
                               "view_driver_hos", "upload_document">>
    /\ last.actions = last.method_actions

\* C40: through the view change_status, with document upload and field
\* edits, a load created in BOOKED is driven to DELIVERED and then to
\* COMPLETED (by a user who keeps trying and does not cancel it), and a request
\* that ends with an error message leaves the load and its rows unchanged.
ChangeStatusRefused ==
    /\ last'.op \in {"change_status", "handover_to_tracking", "start_transit",
                     "complete_load", "cancel"}
    /\ last'.error # <<>>

C40_EveryStatusReachable ==
    /\ [][ChangeStatusRefused
            => /\ Untouched
               /\ UNCHANGED <<documents, stops, truck_status>>]_vars
    /\ ([](load.status # CANCELLED))
          => /\ <>(load.status = DELIVERED)
             /\ <>(load.status = COMPLETED)

====
